---------------------------- MODULE Spec2Model ----------------------------
(***************************************************************************)
(* Model of the kettle leader-election node (src/kettle.go).               *)
(*                                                                         *)
(* A node is built by New(), started once by Start(), and then runs three  *)
(* goroutines: the termination watcher (Start, lines 183-193), the         *)
(* doMaster goroutine (lines 133-148, 161) that creates the ticker and     *)
(* runs the first work() call, and the loop goroutine (lines 150-160) that *)
(* doMaster spawns afterwards.  The nodes share one distributed lock       *)
(* (DistLocker) that frees itself by expiry only: no node ever unlocks.    *)
(***************************************************************************)
EXTENDS Integers, Sequences, FiniteSets

(* The nodes that New() can build against the same lock key. *)
Nodes == {1, 2}

(* Most work cycles one node begins in a checked run. *)
MaxCycles == 3

(* Most quit emissions a caller makes on one node's quit channel. *)
MaxQuit == 2

(* Most work cycles and quit emissions per node when two nodes run. *)
PairCycles == 2

PairQuit == 1

(* Capacity of masterQuit and of masterDone: make(chan error, 1). *)
ChanCap == 1

(* Capacity of the ticker's channel (time.NewTicker buffers one tick). *)
TickCap == 1

(* The goroutines of the engine: doMaster itself and the loop it spawns. *)
Threads == {"dm", "lp"}

(* The random tokens uuid.NewV4() may return. *)
Tokens == {"u1", "u2"}

VARIABLES
    built,        \* the nodes New() has built (src/kettle.go:200-226)
    newRet,       \* what New last returned for a node: "none", "err", "nil"
    newArgs,      \* history: the option and environment New was last called with
    lock,         \* s.lock: "nil", "custom" or "redsync"
    pool,         \* s.pool: whether New built the default backend's pool
    startRet,     \* what Start last returned: "none" (not called), "err", "nil"
    startInput,   \* s.startInput: the copy of the caller's *StartInput
    hostname,     \* s.hostname: "" until Start assigns hostname__uuid
    masterQuit,   \* s.masterQuit: [made, len]
    masterDone,   \* s.masterDone: [made, len]
    master,       \* s.master: 1 if we are master, otherwise 0
    pc,           \* pc[n][t]: position of engine goroutine t of node n
    err,          \* err[n][t]: setMaster's local err ("none" outside setMaster)
    wpc,          \* position of the termination watcher goroutine
    ticker,       \* masterTicker: [made, len] (len = ticks buffered in .C)
    holder,       \* the shared lock: 0 when free, else the node holding it
    quitCh,       \* emissions pending on in.Quit
    quitSent,     \* history: emissions made by the caller on in.Quit
    quitEarly,    \* history: quit was emitted before the loop goroutine existed
    doneSent,     \* history: sends completed on in.Done
    events,       \* history: the shutdown events of each node, in order
    cycles,       \* history: work cycles begun
    lockOk,       \* history: Lock() calls that returned nil
    lastLock,     \* history: outcome of the latest Lock() return
    cbCalls,      \* history: invocations of startInput.Master
    cbCycle,      \* history: invocations of Master in the current/latest cycle
    tickAfterStop, \* history: a tick was taken while the stop signal was pending
    unlocks,      \* history: calls of s.lock.Unlock() made by the node
    attempts,     \* history: the results of the node's Lock() calls, in order
    lastCb        \* history: what the callback last returned ("none", "nil", "error")

vars == << built, newRet, newArgs, lock, pool, startRet, startInput, hostname, masterQuit, masterDone,
           master, pc, err, wpc, ticker, holder, quitCh, quitSent, quitEarly, doneSent,
           events, cycles, lockOk, lastLock, cbCalls, cbCycle, tickAfterStop, unlocks, attempts, lastCb >>

---------------------------------------------------------------------------
(* The *StartInput values a caller may pass (src/kettle.go:163-168).  Every *)
(* field is a pointer-like value that is either set or nil.                *)

NilInput == [isNil |-> TRUE, Master |-> FALSE, Quit |-> FALSE, Done |-> FALSE]

EmptyInput == [isNil |-> FALSE, Master |-> FALSE, Quit |-> FALSE, Done |-> FALSE]

StartInput ==
    { NilInput, EmptyInput,
      [isNil |-> FALSE, Master |-> FALSE, Quit |-> TRUE, Done |-> TRUE],
      [isNil |-> FALSE, Master |-> TRUE,  Quit |-> TRUE, Done |-> TRUE] }

NoChan == [made |-> FALSE, len |-> 0]

MakeChan == [made |-> TRUE, len |-> 0]

(* Positions inside work(): from the call of setMaster to work's return. *)
WorkPcs == {"locking", "store", "check", "cb", "ret"}

(* Work cycles of node n that are in flight. *)
InFlight(n) == Cardinality({t \in Threads : pc[n][t] \in WorkPcs})

---------------------------------------------------------------------------
(* The option and environment of a default construction that succeeds. *)
DefaultArgs == [custom |-> FALSE, host |-> TRUE, password |-> FALSE, tm |-> << >>]

(* The state after New(): nothing started, the lock free; the nodes in    *)
(* built were constructed with the default lock.                          *)
Fresh ==
    /\ newRet = [n \in Nodes |-> IF n \in built THEN "nil" ELSE "none"]
    /\ newArgs = [n \in Nodes |-> DefaultArgs]
    /\ lock = [n \in Nodes |-> IF n \in built THEN "redsync" ELSE "nil"]
    /\ pool = [n \in Nodes |-> n \in built]
    /\ startRet = [n \in Nodes |-> "none"]
    /\ startInput = [n \in Nodes |-> NilInput]
    /\ hostname = [n \in Nodes |-> ""]
    /\ masterQuit = [n \in Nodes |-> NoChan]
    /\ masterDone = [n \in Nodes |-> NoChan]
    /\ master = [n \in Nodes |-> 0]
    /\ pc = [n \in Nodes |-> [t \in Threads |-> "none"]]
    /\ err = [n \in Nodes |-> [t \in Threads |-> "none"]]
    /\ wpc = [n \in Nodes |-> "none"]
    /\ ticker = [n \in Nodes |-> NoChan]
    /\ holder = 0
    /\ quitCh = [n \in Nodes |-> 0]
    /\ quitSent = [n \in Nodes |-> 0]
    /\ quitEarly = [n \in Nodes |-> FALSE]
    /\ doneSent = [n \in Nodes |-> 0]
    /\ events = [n \in Nodes |-> << >>]
    /\ cycles = [n \in Nodes |-> 0]
    /\ lockOk = [n \in Nodes |-> 0]
    /\ lastLock = [n \in Nodes |-> "none"]
    /\ cbCalls = [n \in Nodes |-> 0]
    /\ cbCycle = [n \in Nodes |-> 0]
    /\ tickAfterStop = [n \in Nodes |-> FALSE]
    /\ unlocks = [n \in Nodes |-> 0]
    /\ attempts = [n \in Nodes |-> << >>]
    /\ lastCb = [n \in Nodes |-> "none"]

(* One node built. *)
Init == built = {1} /\ Fresh

(* Two nodes built against the same lock key. *)
InitPair == built = Nodes /\ Fresh

(* No node built yet. *)
InitNew == built = {} /\ Fresh

---------------------------------------------------------------------------
(* NewRedisPool (src/v2/redis.go:12-43) and New (src/kettle.go:200-226).   *)

(* The values REDIS_TIMEOUT_SECONDS may hold, as strings of characters. *)
TmValues == { << >>, << "5" >>, << "1", "0" >>, << "-", "1" >>, << "x" >>,
              << "1", "x" >>, << "-" >> }

(* The environments and options New may be called with: a custom lock or  *)
(* none, REDIS_HOST and REDIS_PASSWORD set or empty, REDIS_TIMEOUT_SECONDS.*)
NewArgs ==
    [custom : BOOLEAN, host : BOOLEAN, password : BOOLEAN, tm : TmValues]

DigitVal == [c \in {"0", "1", "5"} |-> IF c = "0" THEN 0 ELSE IF c = "1" THEN 1 ELSE 5]

RECURSIVE Digits(_, _)
(* The digits of s read in base 10 onto acc: the value, or -1 at a        *)
(* character that is no digit.                                            *)
Digits(s, acc) ==
    IF s = << >> THEN acc
    ELSE IF Head(s) \notin DOMAIN DigitVal THEN -1
    ELSE Digits(Tail(s), acc * 10 + DigitVal[Head(s)])

(* strconv.Atoi (redis.go:26): an optional sign, then one digit at least. *)
Atoi(s) ==
    LET signed == s # << >> /\ Head(s) \in {"+", "-"}
        body == IF signed THEN Tail(s) ELSE s
        mag == IF body = << >> THEN -1 ELSE Digits(body, 0)
    IN  IF mag < 0 THEN [ok |-> FALSE, val |-> 0]
        ELSE [ok |-> TRUE,
              val |-> IF signed /\ Head(s) = "-" THEN 0 - mag ELSE mag]

(* NewRedisPool under environment a: the error it returns, or the pool    *)
(* with its dial options.                                                 *)
NewRedisPool(a) ==
    IF ~a.host THEN [err |-> TRUE, opts |-> {}]
    ELSE IF a.tm # << >> /\ ~Atoi(a.tm).ok THEN [err |-> TRUE, opts |-> {}]
    ELSE [err |-> FALSE,
          opts |-> (IF a.password THEN {"password"} ELSE {})
                   \cup (IF a.tm # << >> THEN {"timeout"} ELSE {})]

(* Whether New builds the default backend: if s.lock == nil (line 210). *)
NeedsDefaultLock(a) == ~a.custom

(* New where the default backend is built although a lock was supplied. *)
NewAlwaysPool(n, a) ==
    /\ n \notin built
    /\ newArgs' = [newArgs EXCEPT ![n] = a]
    /\ IF NewRedisPool(a).err
         THEN /\ newRet' = [newRet EXCEPT ![n] = "err"]
              /\ UNCHANGED << built, lock, pool >>
         ELSE /\ newRet' = [newRet EXCEPT ![n] = "nil"]
              /\ built' = built \cup {n}
              /\ lock' = [lock EXCEPT ![n] = IF a.custom THEN "custom" ELSE "redsync"]
              /\ pool' = [pool EXCEPT ![n] = TRUE]
    /\ UNCHANGED << lastCb, tickAfterStop, unlocks, attempts, startRet, startInput, hostname, masterQuit, masterDone,
                    master, pc, err, wpc, ticker, holder, quitCh, quitSent,
                    quitEarly, doneSent, events, cycles, lockOk, lastLock,
                    cbCalls, cbCycle >>

(* New(opts...) under environment a (lines 200-226): with no lock option  *)
(* it builds the pool and the redsync mutex, or returns the pool's error  *)
(* and no node.                                                           *)
New(n, a) ==
    /\ n \notin built
    /\ newArgs' = [newArgs EXCEPT ![n] = a]
    /\ IF NeedsDefaultLock(a)
         THEN IF NewRedisPool(a).err
              THEN /\ newRet' = [newRet EXCEPT ![n] = "err"]
                   /\ UNCHANGED << built, lock, pool >>
              ELSE /\ newRet' = [newRet EXCEPT ![n] = "nil"]
                   /\ built' = built \cup {n}
                   /\ lock' = [lock EXCEPT ![n] = "redsync"]
                   /\ pool' = [pool EXCEPT ![n] = TRUE]
         ELSE /\ newRet' = [newRet EXCEPT ![n] = "nil"]
              /\ built' = built \cup {n}
              /\ lock' = [lock EXCEPT ![n] = "custom"]
              /\ UNCHANGED pool
    /\ UNCHANGED << lastCb, tickAfterStop, unlocks, attempts, startRet, startInput, hostname, masterQuit, masterDone,
                    master, pc, err, wpc, ticker, holder, quitCh, quitSent,
                    quitEarly, doneSent, events, cycles, lockOk, lastLock,
                    cbCalls, cbCycle >>

---------------------------------------------------------------------------
(* Start (src/kettle.go:170-198).                                          *)

(* The only validation Start performs: in == nil (line 171). *)
StartRejects(in) == in.isNil

(* StartFail with the nil check placed after the hostname and the        *)
(* channels are set up.                                                   *)
StartFailLate(n, in) ==
    /\ n \in built
    /\ startRet[n] # "nil"
    /\ StartRejects(in)
    /\ startRet' = [startRet EXCEPT ![n] = "err"]
    /\ hostname' = [hostname EXCEPT ![n] = "u1"]
    /\ masterQuit' = [masterQuit EXCEPT ![n] = MakeChan]
    /\ masterDone' = [masterDone EXCEPT ![n] = MakeChan]
    /\ UNCHANGED << built, lastCb, unlocks, attempts, newRet, newArgs, lock, pool, tickAfterStop, startInput, master, pc, err, wpc, ticker, holder,
                    quitCh, quitSent, quitEarly, doneSent, events, cycles,
                    lockOk, lastLock, cbCalls, cbCycle >>

(* Start returning errors.Errorf("input cannot be nil") (lines 171-173). *)
StartFail(n, in) ==
    /\ n \in built
    /\ startRet[n] # "nil"
    /\ StartRejects(in)
    /\ startRet' = [startRet EXCEPT ![n] = "err"]
    /\ UNCHANGED << built, lastCb, unlocks, attempts, newRet, newArgs, lock, pool, tickAfterStop, startInput, hostname, masterQuit, masterDone, master, pc,
                    err, wpc, ticker, holder, quitCh, quitSent, quitEarly, doneSent,
                    events, cycles, lockOk, lastLock, cbCalls, cbCycle >>

(* StartOk without the assignment of s.hostname. *)
StartOkNoIdentity(n, in, u) ==
    /\ n \in built
    /\ startRet[n] # "nil"
    /\ ~StartRejects(in)
    /\ startInput' = [startInput EXCEPT ![n] = in]
    /\ hostname' = hostname
    /\ masterQuit' = [masterQuit EXCEPT ![n] = MakeChan]
    /\ masterDone' = [masterDone EXCEPT ![n] = MakeChan]
    /\ wpc' = [wpc EXCEPT ![n] = "quit"]
    /\ pc' = [pc EXCEPT ![n]["dm"] = "start"]
    /\ startRet' = [startRet EXCEPT ![n] = "nil"]
    /\ UNCHANGED << built, lastCb, unlocks, attempts, newRet, newArgs, lock, pool, tickAfterStop, master, err, ticker, holder, quitCh, quitSent, quitEarly, doneSent,
                    events, cycles, lockOk, lastLock, cbCalls, cbCycle >>

(* Start past the check (lines 175-197): keeps the input, assigns the     *)
(* hostname, makes both channels, spawns the watcher and doMaster.        *)
StartOk(n, in, u) ==
    /\ n \in built
    /\ startRet[n] # "nil"
    /\ ~StartRejects(in)
    /\ startInput' = [startInput EXCEPT ![n] = in]
    /\ hostname' = [hostname EXCEPT ![n] = u]
    /\ masterQuit' = [masterQuit EXCEPT ![n] = MakeChan]
    /\ masterDone' = [masterDone EXCEPT ![n] = MakeChan]
    /\ wpc' = [wpc EXCEPT ![n] = "quit"]
    /\ pc' = [pc EXCEPT ![n]["dm"] = "start"]
    /\ startRet' = [startRet EXCEPT ![n] = "nil"]
    /\ UNCHANGED << built, lastCb, unlocks, attempts, newRet, newArgs, lock, pool, tickAfterStop, master, err, ticker, holder, quitCh, quitSent, quitEarly, doneSent,
                    events, cycles, lockOk, lastLock, cbCalls, cbCycle >>

Start(n, in, u) == StartFail(n, in) \/ StartOk(n, in, u)

(* The caller emitting on the quit channel it passed to Start. *)
EmitQuit(n) ==
    /\ startRet[n] = "nil"
    /\ startInput[n].Quit
    /\ quitSent[n] < MaxQuit
    /\ quitCh' = [quitCh EXCEPT ![n] = @ + 1]
    /\ quitSent' = [quitSent EXCEPT ![n] = @ + 1]
    /\ quitEarly' = [quitEarly EXCEPT ![n] = @ \/ pc[n]["lp"] = "none"]
    /\ UNCHANGED << built, lastCb, unlocks, attempts, newRet, newArgs, lock, pool, tickAfterStop, startRet, startInput, hostname, masterQuit, masterDone,
                    master, pc, err, wpc, ticker, holder, doneSent, events,
                    cycles, lockOk, lastLock, cbCalls, cbCycle >>

---------------------------------------------------------------------------
(* The termination watcher (src/kettle.go:183-193).                        *)

(* <-in.Quit (line 184); a receive from a nil channel blocks for ever. *)
WatcherQuit(n) ==
    /\ wpc[n] = "quit"
    /\ startInput[n].Quit
    /\ quitCh[n] > 0
    /\ quitCh' = [quitCh EXCEPT ![n] = @ - 1]
    /\ wpc' = [wpc EXCEPT ![n] = "stop"]
    /\ events' = [events EXCEPT ![n] = Append(@, "quit")]
    /\ UNCHANGED << built, lastCb, unlocks, attempts, newRet, newArgs, lock, pool, tickAfterStop, startRet, startInput, hostname, masterQuit, masterDone,
                    master, pc, err, ticker, holder, quitSent, quitEarly, doneSent,
                    cycles, lockOk, lastLock, cbCalls, cbCycle >>

(* WatcherStop with the two control channels mixed up: the watcher sends  *)
(* on masterDone, the channel it is about to receive from.                *)
WatcherStopWrongChan(n) ==
    /\ wpc[n] = "stop"
    /\ masterDone[n].len < ChanCap
    /\ masterDone' = [masterDone EXCEPT ![n].len = @ + 1]
    /\ wpc' = [wpc EXCEPT ![n] = "wait"]
    /\ events' = [events EXCEPT ![n] = Append(@, "stop")]
    /\ UNCHANGED << built, lastCb, unlocks, attempts, newRet, newArgs, lock, pool, tickAfterStop, startRet, startInput, hostname, masterQuit, master,
                    pc, err, ticker, holder, quitCh, quitSent, quitEarly,
                    doneSent, cycles, lockOk, lastLock, cbCalls, cbCycle >>

(* s.masterQuit <- nil (line 188). *)
WatcherStop(n) ==
    /\ wpc[n] = "stop"
    /\ masterQuit[n].len < ChanCap
    /\ masterQuit' = [masterQuit EXCEPT ![n].len = @ + 1]
    /\ wpc' = [wpc EXCEPT ![n] = "wait"]
    /\ events' = [events EXCEPT ![n] = Append(@, "stop")]
    /\ UNCHANGED << built, lastCb, unlocks, attempts, newRet, newArgs, lock, pool, tickAfterStop, startRet, startInput, hostname, masterDone, master, pc,
                    err, ticker, holder, quitCh, quitSent, quitEarly, doneSent, cycles,
                    lockOk, lastLock, cbCalls, cbCycle >>

(* <-s.masterDone (line 189). *)
WatcherWait(n) ==
    /\ wpc[n] = "wait"
    /\ masterDone[n].len > 0
    /\ masterDone' = [masterDone EXCEPT ![n].len = @ - 1]
    /\ wpc' = [wpc EXCEPT ![n] = "done"]
    /\ UNCHANGED << built, lastCb, unlocks, attempts, newRet, newArgs, lock, pool, tickAfterStop, startRet, startInput, hostname, masterQuit, master, pc,
                    err, ticker, holder, quitCh, quitSent, quitEarly, doneSent, events,
                    cycles, lockOk, lastLock, cbCalls, cbCycle >>

(* WatcherDone with the watcher's body wrapped in a for loop: after the   *)
(* send it waits for the next quit.                                       *)
WatcherDoneLoop(n) ==
    /\ wpc[n] = "done"
    /\ startInput[n].Done
    /\ doneSent' = [doneSent EXCEPT ![n] = @ + 1]
    /\ wpc' = [wpc EXCEPT ![n] = "quit"]
    /\ events' = [events EXCEPT ![n] = Append(@, "done")]
    /\ UNCHANGED << built, lastCb, unlocks, attempts, newRet, newArgs, lock, pool, tickAfterStop, startRet, startInput, hostname, masterQuit,
                    masterDone, master, pc, err, ticker, holder, quitCh,
                    quitSent, quitEarly, cycles, lockOk, lastLock, cbCalls,
                    cbCycle >>

(* in.Done <- nil (line 192), completed when the caller takes it; a send  *)
(* on a nil channel blocks for ever.                                       *)
WatcherDone(n) ==
    /\ wpc[n] = "done"
    /\ startInput[n].Done
    /\ doneSent' = [doneSent EXCEPT ![n] = @ + 1]
    /\ wpc' = [wpc EXCEPT ![n] = "exit"]
    /\ events' = [events EXCEPT ![n] = Append(@, "done")]
    /\ UNCHANGED << built, lastCb, unlocks, attempts, newRet, newArgs, lock, pool, tickAfterStop, startRet, startInput, hostname, masterQuit, masterDone,
                    master, pc, err, ticker, holder, quitCh, quitSent, quitEarly, cycles,
                    lockOk, lastLock, cbCalls, cbCycle >>

---------------------------------------------------------------------------
(* The distributed lock behind DistLocker (src/kettle.go:22-25, 219-222). *)

(* What s.lock.Lock() may return to node n: nil only when no other node   *)
(* holds the lock; an error at any time (held elsewhere, transport error, *)
(* or a holder's own re-entry refused by the backend).                    *)
LockResults(n) ==
    IF holder = 0 \/ holder = n THEN {"nil", "error"} ELSE {"error"}

(* The backend frees a held lock when its expiry passes                   *)
(* (redsync.SetExpiry, line 221); the node itself never calls Unlock.     *)
Expire ==
    /\ holder # 0
    /\ holder' = 0
    /\ UNCHANGED << built, lastCb, unlocks, attempts, newRet, newArgs, lock, pool, tickAfterStop, startRet, startInput, hostname, masterQuit, masterDone,
                    master, pc, err, wpc, ticker, quitCh, quitSent, quitEarly, doneSent,
                    events, cycles, lockOk, lastLock, cbCalls, cbCycle >>

---------------------------------------------------------------------------
(* setMaster and isMaster (src/kettle.go:114-131).                         *)

(* setMasterValue with the test of err inverted. *)
setMasterValueInverted(e) == IF e = "nil" THEN 0 ELSE 1

(* The value setMaster stores for the error Lock() returned. *)
setMasterValue(e) == IF e # "nil" THEN 0 ELSE 1

(* atomic.LoadInt32(&s.master) == 1 *)
isMaster(n) == master[n] = 1

---------------------------------------------------------------------------
(* doMaster (src/kettle.go:133-161).                                       *)

(* Where a goroutine continues when work() returns: doMaster goes on to   *)
(* spawn the loop (line 150), the loop goes back to its select (line 152).*)
AfterWork(t) == IF t = "dm" THEN "spawn" ELSE "select"

(* NewTicker in a doMaster that starts the loop goroutine before its      *)
(* first work() call.                                                     *)
NewTickerLoopFirst(n) ==
    /\ pc[n]["dm"] = "start"
    /\ ticker' = [ticker EXCEPT ![n] = MakeChan]
    /\ pc' = [pc EXCEPT ![n]["dm"] = "work", ![n]["lp"] = "select"]
    /\ UNCHANGED << built, lastCb, unlocks, attempts, newRet, newArgs, lock, pool, tickAfterStop, startRet, startInput, hostname, masterQuit,
                    masterDone, master, err, wpc, holder, quitCh, quitSent,
                    quitEarly, doneSent, events, cycles, lockOk, lastLock,
                    cbCalls, cbCycle >>

(* time.NewTicker (line 134): the ticker runs from here on. *)
NewTicker(n) ==
    /\ pc[n]["dm"] = "start"
    /\ ticker' = [ticker EXCEPT ![n] = MakeChan]
    /\ pc' = [pc EXCEPT ![n]["dm"] = "work"]
    /\ UNCHANGED << built, lastCb, unlocks, attempts, newRet, newArgs, lock, pool, tickAfterStop, startRet, startInput, hostname, masterQuit, masterDone,
                    master, err, wpc, holder, quitCh, quitSent, quitEarly, doneSent,
                    events, cycles, lockOk, lastLock, cbCalls, cbCycle >>

(* The runtime delivering a tick into masterTicker.C; a tick that finds   *)
(* the channel full is dropped.                                           *)
Tick(n) ==
    /\ ticker[n].made
    /\ ticker[n].len < TickCap
    /\ ticker' = [ticker EXCEPT ![n].len = @ + 1]
    /\ UNCHANGED << built, lastCb, unlocks, attempts, newRet, newArgs, lock, pool, tickAfterStop, startRet, startInput, hostname, masterQuit, masterDone,
                    master, pc, err, wpc, holder, quitCh, quitSent, quitEarly, doneSent,
                    events, cycles, lockOk, lastLock, cbCalls, cbCycle >>

(* work() is entered (lines 148, 154) and calls setMaster, which calls    *)
(* s.lock.Lock() (line 123).                                              *)
WorkBegin(n, t) ==
    /\ pc[n][t] = "work"
    /\ pc' = [pc EXCEPT ![n][t] = "locking"]
    /\ cycles' = [cycles EXCEPT ![n] = @ + 1]
    /\ cbCycle' = [cbCycle EXCEPT ![n] = 0]
    /\ UNCHANGED << built, lastCb, unlocks, attempts, newRet, newArgs, lock, pool, tickAfterStop, startRet, startInput, hostname, masterQuit, masterDone,
                    master, err, wpc, ticker, holder, quitCh, quitSent,
                    quitEarly, doneSent, events, lockOk, lastLock, cbCalls >>

(* s.lock.Lock() returns e (line 123). *)
LockReturn(n, t, e) ==
    /\ pc[n][t] = "locking"
    /\ e \in LockResults(n)
    /\ err' = [err EXCEPT ![n][t] = e]
    /\ holder' = IF e = "nil" THEN n ELSE holder
    /\ lastLock' = [lastLock EXCEPT ![n] = e]
    /\ attempts' = [attempts EXCEPT ![n] = Append(@, e)]
    /\ lockOk' = [lockOk EXCEPT ![n] = IF e = "nil" THEN @ + 1 ELSE @]
    /\ pc' = [pc EXCEPT ![n][t] = "store"]
    /\ UNCHANGED << built, lastCb, unlocks, newRet, newArgs, lock, pool, tickAfterStop, startRet, startInput, hostname, masterQuit, masterDone,
                    master, wpc, ticker, quitCh, quitSent, quitEarly, doneSent, events,
                    cycles, cbCalls, cbCycle >>

(* atomic.StoreInt32(&s.master, ...) and setMaster's return (124-130). *)
setMaster(n, t) ==
    /\ pc[n][t] = "store"
    /\ master' = [master EXCEPT ![n] = setMasterValue(err[n][t])]
    /\ err' = [err EXCEPT ![n][t] = "none"]
    /\ pc' = [pc EXCEPT ![n][t] = "check"]
    /\ UNCHANGED << built, lastCb, unlocks, attempts, newRet, newArgs, lock, pool, tickAfterStop, startRet, startInput, hostname, masterQuit, masterDone,
                    wpc, ticker, holder, quitCh, quitSent, quitEarly, doneSent, events,
                    cycles, lockOk, lastLock, cbCalls, cbCycle >>

(* CallsMaster without the isMaster test. *)
CallsMasterAlways(n) == startInput[n].Master

(* Whether work() invokes the callback (lines 141-142). *)
CallsMaster(n) == isMaster(n) /\ startInput[n].Master

(* if s.isMaster() { if s.startInput.Master != nil { Master(ctx) } }      *)
(* (lines 141-145): the callback is entered, or work() is about to return.*)
WorkCheck(n, t) ==
    /\ pc[n][t] = "check"
    /\ IF CallsMaster(n)
         THEN /\ pc' = [pc EXCEPT ![n][t] = "cb"]
              /\ cbCalls' = [cbCalls EXCEPT ![n] = @ + 1]
              /\ cbCycle' = [cbCycle EXCEPT ![n] = @ + 1]
         ELSE /\ pc' = [pc EXCEPT ![n][t] = "ret"]
              /\ UNCHANGED << cbCalls, cbCycle >>
    /\ UNCHANGED << built, lastCb, unlocks, attempts, newRet, newArgs, lock, pool, tickAfterStop, startRet, startInput, hostname, masterQuit, masterDone,
                    master, err, wpc, ticker, holder, quitCh, quitSent,
                    quitEarly, doneSent, events, cycles, lockOk, lastLock >>

(* MasterReturn in a work() that steps down when the callback fails. *)
MasterReturnDemote(n, t, r) ==
    /\ pc[n][t] = "cb"
    /\ pc' = [pc EXCEPT ![n][t] = "ret"]
    /\ lastCb' = [lastCb EXCEPT ![n] = r]
    /\ master' = [master EXCEPT ![n] = IF r = "error" THEN 0 ELSE @]
    /\ UNCHANGED << built, unlocks, attempts, newRet, newArgs, lock, pool, tickAfterStop, startRet, startInput, hostname, masterQuit, masterDone,
                    err, wpc, ticker, holder, quitCh, quitSent,
                    quitEarly, doneSent, events, cycles, lockOk, lastLock, cbCalls,
                    cbCycle >>

(* The callback returns r (line 143); work() drops the value. *)
MasterReturn(n, t, r) ==
    /\ pc[n][t] = "cb"
    /\ pc' = [pc EXCEPT ![n][t] = "ret"]
    /\ lastCb' = [lastCb EXCEPT ![n] = r]
    /\ UNCHANGED << built, unlocks, attempts, newRet, newArgs, lock, pool, tickAfterStop, startRet, startInput, hostname, masterQuit, masterDone,
                    master, err, wpc, ticker, holder, quitCh, quitSent,
                    quitEarly, doneSent, events, cycles, lockOk, lastLock, cbCalls,
                    cbCycle >>

(* WorkReturn in an engine that treats a failed Lock() as fatal: the      *)
(* goroutine ends instead of waiting for the next tick.                   *)
WorkReturnFatal(n, t) ==
    /\ pc[n][t] = "ret"
    /\ pc' = [pc EXCEPT ![n][t] =
                 IF lastLock[n] = "error" THEN "exit" ELSE AfterWork(t)]
    /\ UNCHANGED << built, lastCb, unlocks, attempts, tickAfterStop, newRet, newArgs,
                    lock, pool, startRet, startInput, hostname, masterQuit,
                    masterDone, master, err, wpc, ticker, holder, quitCh,
                    quitSent, quitEarly, doneSent, events, cycles, lockOk,
                    lastLock, cbCalls, cbCycle >>

(* work() returns to its caller (line 146). *)
WorkReturn(n, t) ==
    /\ pc[n][t] = "ret"
    /\ pc' = [pc EXCEPT ![n][t] = AfterWork(t)]
    /\ UNCHANGED << built, lastCb, unlocks, attempts, newRet, newArgs, lock, pool, tickAfterStop, startRet, startInput, hostname, masterQuit, masterDone,
                    master, err, wpc, ticker, holder, quitCh, quitSent,
                    quitEarly, doneSent, events, cycles, lockOk, lastLock, cbCalls,
                    cbCycle >>

(* go func() { for { select ... } }() and doMaster's return (150, 160-161).*)
SpawnLoop(n) ==
    /\ pc[n]["dm"] = "spawn"
    /\ pc' = [pc EXCEPT ![n]["dm"] = "exit", ![n]["lp"] = "select"]
    /\ UNCHANGED << built, lastCb, unlocks, attempts, newRet, newArgs, lock, pool, tickAfterStop, startRet, startInput, hostname, masterQuit, masterDone,
                    master, err, wpc, ticker, holder, quitCh, quitSent,
                    quitEarly, doneSent, events, cycles, lockOk, lastLock, cbCalls,
                    cbCycle >>

(* LoopTick in a loop that looks at the stop signal first and takes a     *)
(* tick only when none is pending.                                        *)
LoopTickStopFirst(n) ==
    /\ pc[n]["lp"] = "select"
    /\ ticker[n].len > 0
    /\ masterQuit[n].len = 0
    /\ cycles[n] < MaxCycles
    /\ ticker' = [ticker EXCEPT ![n].len = @ - 1]
    /\ pc' = [pc EXCEPT ![n]["lp"] = "work"]
    /\ tickAfterStop' = [tickAfterStop EXCEPT ![n] = @ \/ masterQuit[n].len > 0]
    /\ UNCHANGED << built, lastCb, unlocks, attempts, newRet, newArgs, lock, pool, startRet, startInput, hostname, masterQuit, masterDone,
                    master, err, wpc, holder, quitCh, quitSent, quitEarly, doneSent,
                    events, cycles, lockOk, lastLock, cbCalls, cbCycle >>

(* case <-masterTicker.C (line 153). *)
LoopTick(n) ==
    /\ pc[n]["lp"] = "select"
    /\ ticker[n].len > 0
    /\ cycles[n] < MaxCycles
    /\ ticker' = [ticker EXCEPT ![n].len = @ - 1]
    /\ pc' = [pc EXCEPT ![n]["lp"] = "work"]
    /\ tickAfterStop' = [tickAfterStop EXCEPT ![n] = @ \/ masterQuit[n].len > 0]
    /\ UNCHANGED << built, lastCb, unlocks, attempts, newRet, newArgs, lock, pool, startRet, startInput, hostname, masterQuit, masterDone,
                    master, err, wpc, holder, quitCh, quitSent, quitEarly, doneSent,
                    events, cycles, lockOk, lastLock, cbCalls, cbCycle >>

(* case <-s.masterQuit (line 155). *)
LoopQuit(n) ==
    /\ pc[n]["lp"] = "select"
    /\ masterQuit[n].len > 0
    /\ masterQuit' = [masterQuit EXCEPT ![n].len = @ - 1]
    /\ pc' = [pc EXCEPT ![n]["lp"] = "ack"]
    /\ UNCHANGED << built, lastCb, unlocks, attempts, newRet, newArgs, lock, pool, tickAfterStop, startRet, startInput, hostname, masterDone, master, err,
                    wpc, ticker, holder, quitCh, quitSent, quitEarly, doneSent, events,
                    cycles, lockOk, lastLock, cbCalls, cbCycle >>

(* LoopAck in a loop that returns without acknowledging. *)
LoopAckSilent(n) ==
    /\ pc[n]["lp"] = "ack"
    /\ pc' = [pc EXCEPT ![n]["lp"] = "exit"]
    /\ UNCHANGED << built, lastCb, unlocks, attempts, newRet, newArgs, lock, pool, tickAfterStop, startRet, startInput, hostname, masterQuit,
                    masterDone, master, err, wpc, ticker, holder, quitCh,
                    quitSent, quitEarly, doneSent, events, cycles, lockOk,
                    lastLock, cbCalls, cbCycle >>

(* LoopAck without the return: the loop acknowledges and selects again. *)
LoopAckNoReturn(n) ==
    /\ pc[n]["lp"] = "ack"
    /\ masterDone[n].len < ChanCap
    /\ masterDone' = [masterDone EXCEPT ![n].len = @ + 1]
    /\ pc' = [pc EXCEPT ![n]["lp"] = "select"]
    /\ events' = [events EXCEPT ![n] = Append(@, "ack")]
    /\ UNCHANGED << built, lastCb, unlocks, attempts, newRet, newArgs, lock, pool, tickAfterStop, startRet, startInput,
                    hostname, masterQuit, master, err, wpc, ticker, holder,
                    quitCh, quitSent, quitEarly, doneSent, cycles, lockOk,
                    lastLock, cbCalls, cbCycle >>

(* LoopAck in a loop that releases the lock before it acknowledges. *)
LoopAckUnlock(n) ==
    /\ pc[n]["lp"] = "ack"
    /\ masterDone[n].len < ChanCap
    /\ masterDone' = [masterDone EXCEPT ![n].len = @ + 1]
    /\ pc' = [pc EXCEPT ![n]["lp"] = "exit"]
    /\ events' = [events EXCEPT ![n] = Append(@, "ack")]
    /\ unlocks' = [unlocks EXCEPT ![n] = @ + 1]
    /\ holder' = IF holder = n THEN 0 ELSE holder
    /\ UNCHANGED << built, lastCb, attempts, tickAfterStop, newRet, newArgs, lock, pool,
                    startRet, startInput, hostname, masterQuit, master, err,
                    wpc, ticker, quitCh, quitSent, quitEarly, doneSent,
                    cycles, lockOk, lastLock, cbCalls, cbCycle >>

(* s.masterDone <- nil; return (lines 156-157). *)
LoopAck(n) ==
    /\ pc[n]["lp"] = "ack"
    /\ masterDone[n].len < ChanCap
    /\ masterDone' = [masterDone EXCEPT ![n].len = @ + 1]
    /\ pc' = [pc EXCEPT ![n]["lp"] = "exit"]
    /\ events' = [events EXCEPT ![n] = Append(@, "ack")]
    /\ UNCHANGED << built, lastCb, unlocks, attempts, newRet, newArgs, lock, pool, tickAfterStop, startRet, startInput, hostname, masterQuit, master, err,
                    wpc, ticker, holder, quitCh, quitSent, quitEarly, doneSent, cycles,
                    lockOk, lastLock, cbCalls, cbCycle >>

---------------------------------------------------------------------------
Next ==
    \/ \E n \in Nodes, in \in StartInput, u \in Tokens : Start(n, in, u)
    \/ \E n \in Nodes : EmitQuit(n)
    \/ \E n \in Nodes : WatcherQuit(n)
    \/ \E n \in Nodes : WatcherStop(n)
    \/ \E n \in Nodes : WatcherWait(n)
    \/ \E n \in Nodes : WatcherDone(n)
    \/ \E n \in Nodes : NewTicker(n)
    \/ \E n \in Nodes : Tick(n)
    \/ \E n \in Nodes, t \in Threads : WorkBegin(n, t)
    \/ \E n \in Nodes, t \in Threads, e \in {"nil", "error"} : LockReturn(n, t, e)
    \/ \E n \in Nodes, t \in Threads : setMaster(n, t)
    \/ \E n \in Nodes, t \in Threads : WorkCheck(n, t)
    \/ \E n \in Nodes, t \in Threads, r \in {"nil", "error"} : MasterReturn(n, t, r)
    \/ \E n \in Nodes, t \in Threads : WorkReturn(n, t)
    \/ \E n \in Nodes : SpawnLoop(n)
    \/ \E n \in Nodes : LoopTick(n)
    \/ \E n \in Nodes : LoopQuit(n)
    \/ \E n \in Nodes : LoopAck(n)
    \/ Expire

Spec == Init /\ [][Next]_vars

(* Two nodes on one lock, both started with every field of the input    *)
(* set, each bounded to PairCycles work cycles and PairQuit emissions.    *)
FullInput == [isNil |-> FALSE, Master |-> TRUE, Quit |-> TRUE, Done |-> TRUE]

NextPair ==
    \/ \E n \in Nodes, in \in {NilInput, FullInput} : Start(n, in, "u1")
    \/ \E n \in Nodes : quitSent[n] < PairQuit /\ EmitQuit(n)
    \/ \E n \in Nodes : WatcherQuit(n)
    \/ \E n \in Nodes : WatcherStop(n)
    \/ \E n \in Nodes : WatcherWait(n)
    \/ \E n \in Nodes : WatcherDone(n)
    \/ \E n \in Nodes : NewTicker(n)
    \/ \E n \in Nodes : Tick(n)
    \/ \E n \in Nodes, t \in Threads : WorkBegin(n, t)
    \/ \E n \in Nodes, t \in Threads, e \in {"nil", "error"} : LockReturn(n, t, e)
    \/ \E n \in Nodes, t \in Threads : setMaster(n, t)
    \/ \E n \in Nodes, t \in Threads : WorkCheck(n, t)
    \/ \E n \in Nodes, t \in Threads : MasterReturn(n, t, "nil")
    \/ \E n \in Nodes, t \in Threads : WorkReturn(n, t)
    \/ \E n \in Nodes : SpawnLoop(n)
    \/ \E n \in Nodes : cycles[n] < PairCycles /\ LoopTick(n)
    \/ \E n \in Nodes : LoopQuit(n)
    \/ \E n \in Nodes : LoopAck(n)
    \/ Expire

SpecPair == InitPair /\ [][NextPair]_vars

(* One node from its construction on: New under every option and         *)
(* environment, then the node's run under the bounds of NextPair.         *)
NextNew ==
    \/ \E a \in NewArgs : New(1, a)
    \/ NextPair

SpecNew == InitNew /\ [][NextNew]_vars

---------------------------------------------------------------------------
(* Fairness of the running program: every goroutine that can take its     *)
(* next step takes it (Lock() and the callback return, the caller takes   *)
(* the done signal), and the select of the loop does not starve the stop  *)
(* signal.  Ticks and quit emissions are left to the environment.         *)
Fairness ==
    \A n \in Nodes :
        /\ WF_vars(WatcherQuit(n))
        /\ WF_vars(WatcherStop(n))
        /\ WF_vars(WatcherWait(n))
        /\ WF_vars(WatcherDone(n))
        /\ WF_vars(NewTicker(n))
        /\ WF_vars(SpawnLoop(n))
        /\ WF_vars(LoopAck(n))
        /\ SF_vars(LoopQuit(n))
        /\ \A t \in Threads :
              /\ WF_vars(WorkBegin(n, t))
              /\ WF_vars(\E e \in {"nil", "error"} : LockReturn(n, t, e))
              /\ WF_vars(setMaster(n, t))
              /\ WF_vars(WorkCheck(n, t))
              /\ WF_vars(\E r \in {"nil", "error"} : MasterReturn(n, t, r))
              /\ WF_vars(WorkReturn(n, t))

SpecLive == Spec /\ Fairness

---------------------------------------------------------------------------
(* Properties.                                                             *)

(* The shutdown events in the order the handshake produces them. *)
ShutdownSeq == << "quit", "stop", "ack", "done" >>

IsPrefix(s, t) ==
    /\ Len(s) <= Len(t)
    /\ \A i \in 1 .. Len(s) : s[i] = t[i]

(* How often event ev happened on node n. *)
Count(n, ev) == Cardinality({i \in 1 .. Len(events[n]) : events[n][i] = ev})

(* The engine of node n has acknowledged the stop signal. *)
Acked(n) == Count(n, "ack") > 0

(* C1: the shutdown events of a node happen in the order quit received,   *)
(* stop signal sent, acknowledgement, done; and once done is signaled no  *)
(* work cycle (acquire or callback) of the node is in flight.             *)
C1_ShutdownOrdered ==
    \A n \in Nodes :
        /\ IsPrefix(events[n], ShutdownSeq)
        /\ doneSent[n] > 0 => InFlight(n) = 0

C1_Witness ==
    /\ events[1] = ShutdownSeq
    /\ doneSent[1] = 1
    /\ cycles[1] >= 2

(* C2: two nodes on one mutually exclusive lock never both have           *)
(* masterFlag = 1.                                                        *)
C2_SingleMaster == ~(master[1] = 1 /\ master[2] = 1)

(* C3: when a work cycle ends, masterFlag is 1 exactly if that cycle's    *)
(* Lock() returned nil, whatever the flag was before.                     *)
C3_FlagIsCycleResult ==
    \A n \in Nodes, t \in Threads :
        pc[n][t] = "ret" => (master[n] = 1 <=> lastLock[n] = "nil")

C3_Witness ==
    /\ pc[1]["lp"] = "ret"
    /\ lastLock[1] = "error"
    /\ lockOk[1] >= 1
    /\ master[1] = 0

(* C4: with a callback set, a cycle that ends has invoked it once if its  *)
(* Lock() returned nil and not at all otherwise, never twice; and the     *)
(* invocations add up to the successful acquisitions whenever no cycle is *)
(* between its acquisition and its callback.                              *)
C4_CallbackOncePerSuccess ==
    \A n \in Nodes :
        startInput[n].Master =>
            /\ cbCycle[n] <= 1
            /\ \A t \in Threads :
                  pc[n][t] = "ret" =>
                      cbCycle[n] = (IF lastLock[n] = "nil" THEN 1 ELSE 0)
            /\ (\A t \in Threads : pc[n][t] \notin {"store", "check"})
                  => cbCalls[n] = lockOk[n]

C4_Witness ==
    /\ startInput[1].Master
    /\ pc[1]["lp"] = "ret"
    /\ lastLock[1] = "error"
    /\ cbCycle[1] = 0
    /\ cbCalls[1] = 2
    /\ lockOk[1] = 2

(* C5: under Fairness, a quit emitted on a started node leads to done     *)
(* being signaled.                                                        *)
C5_QuitLeadsToDone ==
    \A n \in Nodes : (quitSent[n] > 0) ~> (doneSent[n] > 0)

C5_Witness ==
    /\ quitEarly[1]
    /\ cycles[1] >= 1
    /\ doneSent[1] = 1

(* C6: done is signaled at most once and only after a quit emission; with *)
(* several emissions only one is consumed, and there is one stop signal   *)
(* and one acknowledgement at most.                                       *)
C6_DoneAtMostOnce ==
    \A n \in Nodes :
        /\ doneSent[n] <= 1
        /\ doneSent[n] > 0 => quitSent[n] > 0
        /\ quitSent[n] - quitCh[n] <= 1
        /\ Count(n, "stop") <= 1
        /\ Count(n, "ack") <= 1

C6_Witness ==
    /\ quitSent[1] = 2
    /\ quitCh[1] = 1
    /\ doneSent[1] = 1

(* Node n as New() left it: no identity, no channels, no goroutine, no    *)
(* acquisition attempted.                                                 *)
Unstarted(n) ==
    /\ startInput[n] = NilInput
    /\ hostname[n] = ""
    /\ masterQuit[n] = NoChan
    /\ masterDone[n] = NoChan
    /\ wpc[n] = "none"
    /\ \A t \in Threads : pc[n][t] = "none"
    /\ ~ticker[n].made
    /\ cycles[n] = 0

(* C7, as claimed: Start never accepts an empty request. *)
C7_EmptyRejected ==
    \A n \in Nodes : startRet[n] = "nil" => startInput[n] # EmptyInput

(* C7, amended: Start never accepts a nil request, and a Start that       *)
(* returned the error left the node as New() built it.                    *)
C7_NilRejected ==
    \A n \in Nodes :
        /\ startRet[n] = "nil" => ~startInput[n].isNil
        /\ startRet[n] = "err" => Unstarted(n)

C7_Witness == startRet[1] = "err"

(* C8: masterFlag is 1 only if the latest acquisition attempt succeeded   *)
(* (its result being stored apart) and the engine has not terminated.     *)
C8_FlagOnlyWhileLive ==
    \A n \in Nodes :
        master[n] = 1 =>
            /\ lastLock[n] = "nil" \/ \E t \in Threads : pc[n][t] = "store"
            /\ ~Acked(n)

(* C9: before the engine acknowledges (and so before done), one Lock()    *)
(* call has returned, its cycle has ended, and every successful           *)
(* acquisition has had its callback.                                      *)
C9_FirstAttemptBeforeAck ==
    \A n \in Nodes :
        (Acked(n) \/ doneSent[n] > 0) =>
            /\ cycles[n] >= 1
            /\ lastLock[n] # "none"
            /\ InFlight(n) = 0
            /\ startInput[n].Master => cbCalls[n] = lockOk[n]

C9_Witness ==
    /\ quitEarly[1]
    /\ Acked(1)
    /\ cycles[1] = 1
    /\ lockOk[1] = 1
    /\ cbCalls[1] = 1

(* C10: at most one work cycle of a node is in flight, and the loop       *)
(* goroutine exists only once doMaster's own cycle has returned.          *)
C10_NoOverlap ==
    \A n \in Nodes :
        /\ InFlight(n) <= 1
        /\ pc[n]["lp"] # "none" => pc[n]["dm"] = "exit"

C10_Witness ==
    /\ cycles[1] >= 2
    /\ pc[1]["lp"] = "cb"
    /\ pc[1]["dm"] = "exit"


(* C11: as long as no Lock() call of a node has returned nil, its          *)
(* masterFlag is 0 and its callback has not been invoked.                  *)
C11_AllFailNeverMaster ==
    \A n \in Nodes :
        lockOk[n] = 0 => master[n] = 0 /\ cbCalls[n] = 0 /\ cbCycle[n] = 0

C11_Witness ==
    /\ startInput[1].Master
    /\ cycles[1] = 3
    /\ lockOk[1] = 0
    /\ lastLock[1] = "error"
    /\ doneSent[1] = 1


(* REDIS_TIMEOUT_SECONDS holds an integer: an optional sign followed by   *)
(* digits only, one at least.                                             *)
IsInteger(s) ==
    LET body == IF s # << >> /\ Head(s) \in {"+", "-"} THEN Tail(s) ELSE s
    IN  /\ body # << >>
        /\ \A i \in 1 .. Len(body) : body[i] \in {"0", "1", "5"}

(* The default backend cannot be built from the arguments a. *)
BadBackend(a) == ~a.host \/ (a.tm # << >> /\ ~IsInteger(a.tm))

(* C12: New with no custom lock and a missing address or a non-integer    *)
(* timeout returns an error and no node; New with a custom lock succeeds  *)
(* under every environment and builds no pool; and a node that runs was   *)
(* built without error, so no construction failure reaches the loop.      *)
C12_ConstructionErrors ==
    \A n \in Nodes :
        /\ newRet[n] # "none" /\ ~newArgs[n].custom /\ BadBackend(newArgs[n])
              => newRet[n] = "err" /\ n \notin built /\ Unstarted(n)
        /\ newRet[n] # "none" /\ newArgs[n].custom
              => newRet[n] = "nil" /\ n \in built /\ ~pool[n] /\ lock[n] = "custom"
        /\ newRet[n] = "err" => n \notin built /\ lock[n] = "nil" /\ ~pool[n]
        /\ startRet[n] # "none" => newRet[n] = "nil" /\ lock[n] # "nil"

C12_Witness ==
    /\ newRet[1] = "nil"
    /\ newArgs[1].custom
    /\ BadBackend(newArgs[1])
    /\ cycles[1] >= 1


(* doMaster of node n is between its start and the return of its own,     *)
(* first work() call.                                                     *)
InFirstCycle(n) == pc[n]["dm"] \in {"work"} \cup WorkPcs

(* C13, as claimed: the ticker is not running while the initial cycle     *)
(* executes, so no tick is pending during it.                             *)
C13_NoTickDuringFirstCycle ==
    \A n \in Nodes : InFirstCycle(n) => ~ticker[n].made /\ ticker[n].len = 0

(* C13, amended: the ticker runs from before the initial cycle on, and    *)
(* while the initial cycle executes no goroutine receives from it: the    *)
(* loop does not exist and no second cycle has begun.                     *)
C13_FirstCycleBeforeLoop ==
    \A n \in Nodes :
        /\ cycles[n] >= 1 => ticker[n].made
        /\ InFirstCycle(n) =>
              /\ ticker[n].made
              /\ pc[n]["lp"] = "none"
              /\ cycles[n] <= 1

C13_Witness ==
    /\ pc[1]["dm"] = "cb"
    /\ ticker[1].len = 1
    /\ cycles[1] = 1


(* C14: once the loop has acknowledged, no step begins a work cycle,      *)
(* returns from Lock(), writes masterFlag or invokes the callback, and    *)
(* the engine's goroutines stay where they ended.                         *)
C14_NothingAfterAck ==
    [][\A n \in Nodes :
          Acked(n) =>
              /\ cycles'[n] = cycles[n]
              /\ lockOk'[n] = lockOk[n]
              /\ lastLock'[n] = lastLock[n]
              /\ master'[n] = master[n]
              /\ cbCalls'[n] = cbCalls[n]
              /\ pc'[n] = pc[n]
              /\ pc[n]["lp"] = "exit"]_vars

C14_Witness ==
    /\ Acked(1)
    /\ ticker[1].len = 1
    /\ cycles[1] < MaxCycles
    /\ doneSent[1] = 1


(* The select of node n's loop with a tick and the stop signal both       *)
(* pending.                                                               *)
BothPending(n) ==
    /\ pc[n]["lp"] = "select"
    /\ ticker[n].len > 0
    /\ masterQuit[n].len > 0
    /\ cycles[n] < MaxCycles

(* C15: with a tick and the stop signal both pending the select may take  *)
(* either: the tick case, which begins a full work cycle after the stop   *)
(* signal was sent, and the quit case are both enabled.                   *)
C15_SelectRace ==
    \A n \in Nodes :
        BothPending(n) => ENABLED LoopTick(n) /\ ENABLED LoopQuit(n)

C15_Witness ==
    /\ tickAfterStop[1]
    /\ Count(1, "stop") = 1
    /\ pc[1]["lp"] = "cb"


(* C16: no step of a node calls Unlock(), and the only step that frees a  *)
(* held lock is the backend's expiry, which moves no goroutine: a lock    *)
(* held when the engine stops stays held until then.                      *)
C16_NeverUnlocks ==
    [][\A n \in Nodes :
          /\ unlocks[n] = 0 /\ unlocks'[n] = 0
          /\ holder = n /\ holder' # n =>
                /\ holder' = 0
                /\ pc' = pc /\ wpc' = wpc /\ events' = events]_vars

C16_Witness ==
    /\ holder = 1
    /\ master[1] = 1
    /\ Acked(1)
    /\ doneSent[1] = 1


(* Lock() calls of node n that have not returned yet. *)
Locking(n) == Cardinality({t \in Threads : pc[n][t] = "locking"})

(* C17: every cycle makes one Lock() call and no more, whatever its       *)
(* result; a goroutine of the engine ends only by doMaster's return after *)
(* the spawn or by the handled stop signal, never by a failed Lock(); and *)
(* after a failed cycle the loop is back at its select, where a pending   *)
(* tick can begin the next attempt.                                       *)
C17_FailureNotFatal ==
    \A n \in Nodes :
        /\ Len(attempts[n]) + Locking(n) = cycles[n]
        /\ pc[n]["dm"] = "exit" => pc[n]["lp"] # "none"
        /\ pc[n]["lp"] = "exit" => Acked(n)
        /\ (lastLock[n] = "error" /\ InFlight(n) = 0 /\ pc[n]["lp"] # "none"
               /\ Count(n, "stop") = 0)
              => /\ pc[n]["lp"] \in {"select", "work"}
                 /\ master[n] = 0
                 /\ (pc[n]["lp"] = "select" /\ ticker[n].len > 0
                        /\ cycles[n] < MaxCycles) => ENABLED LoopTick(n)

C17_Witness ==
    /\ attempts[1] = << "nil", "error", "nil" >>
    /\ master[1] = 1
    /\ pc[1]["lp"] = "select"


(* Everything but the engine's positions and the record of the callback's *)
(* return value.                                                          *)
beyondCallback ==
    << built, newRet, newArgs, lock, pool, startRet, startInput, hostname,
       masterQuit, masterDone, master, err, wpc, ticker, holder, quitCh,
       quitSent, quitEarly, doneSent, events, cycles, lockOk, lastLock,
       cbCalls, cbCycle, tickAfterStop, unlocks, attempts >>

(* C18: a callback may return nil or an error, and the step in which it   *)
(* returns is the same for both: work() goes on to its return, the        *)
(* callback is not invoked again, and masterFlag, the lock, the channels  *)
(* and every count are left as they were.                                 *)
C18_CallbackResultIgnored ==
    [][\A n \in Nodes, t \in Threads :
          /\ pc[n][t] = "cb" =>
                /\ ENABLED MasterReturn(n, t, "nil")
                /\ ENABLED MasterReturn(n, t, "error")
          /\ pc[n][t] = "cb" /\ lastCb'[n] # lastCb[n] =>
                pc'[n][t] = "ret"
          /\ pc[n][t] = "cb" /\ pc'[n][t] # "cb" =>
                /\ pc' = [pc EXCEPT ![n][t] = "ret"]
                /\ UNCHANGED beyondCallback]_vars

C18_Witness ==
    /\ lastCb[1] = "error"
    /\ master[1] = 1
    /\ cbCalls[1] = 2
    /\ pc[1]["lp"] = "cb"


(* C19: the hostname of a node is set by the Start call that succeeds and *)
(* by no other step, it is set before the ticker exists and before any    *)
(* work cycle begins, and once set it keeps its value.                    *)
C19_IdentityAssignedOnce ==
    [][\A n \in Nodes :
          /\ (ticker'[n].made \/ cycles'[n] >= 1 \/ startRet'[n] = "nil")
                => hostname'[n] \in Tokens
          /\ hostname[n] # "" => hostname'[n] = hostname[n]
          /\ hostname'[n] # hostname[n]
                => startRet[n] # "nil" /\ startRet'[n] = "nil"]_vars

C19_Witness ==
    /\ hostname[1] = "u2"
    /\ cycles[1] >= 2
    /\ doneSent[1] = 1


(* C20: masterQuit and masterDone each take one send at most and never    *)
(* hold more than their capacity, and the watcher's send of the stop      *)
(* signal and the loop's send of the acknowledgement find room whenever   *)
(* they are reached: neither send blocks.                                 *)
C20_ControlSendsNeverBlock ==
    \A n \in Nodes :
        /\ masterQuit[n].len <= ChanCap
        /\ masterDone[n].len <= ChanCap
        /\ Count(n, "stop") <= 1
        /\ Count(n, "ack") <= 1
        /\ wpc[n] = "stop" =>
              masterQuit[n].made /\ masterQuit[n].len = 0 /\ ENABLED WatcherStop(n)
        /\ pc[n]["lp"] = "ack" =>
              masterDone[n].made /\ masterDone[n].len = 0 /\ ENABLED LoopAck(n)

C20_Witness ==
    /\ Count(1, "stop") = 1
    /\ masterQuit[1].len = 1
    /\ pc[1]["lp"] = "none"
    /\ pc[1]["dm"] = "locking"

===========================================================================
